---------------------------- MODULE Spec2Model ----------------------------
(* gansidui/go-cache: a leveldb-backed key/value store (KVStore), a TTL     *)
(* index over it (TTLChecker) and the cache built from both (TTLCache).     *)
(*                                                                          *)
(* Byte strings are sequences of byte values, a leveldb database is a       *)
(* function from byte strings to byte strings (the reserved keys are        *)
(* ordinary entries of it, as in the code), a uint64 is the sequence of its *)
(* decimal digits, so that the 64-bit wrap of count()-1 is exact.           *)
EXTENDS Integers, Sequences, FiniteSets, TLC

VARIABLES
    data,       \* KVStore.db of the store under test / TTLCache.dataStore
    ret,        \* the last completed call of the sequential caller and its result
    procs,      \* concurrent KVStore callers: their position and locals
    calls,      \* calls begun so far by the callers
    now,        \* time.Now().Unix()
    ttldb,      \* TTLChecker.db
    skList,     \* TTLChecker.skList, front first
    mutex,      \* TTLChecker.mutex: "free", or who holds it
    sweep,      \* the check loop's goroutine: its position and locals
    client,     \* the caller of TTLChecker / TTLCache: its position and locals
    hist        \* history: the callbacks made, and the index as the pass found it

kvVars == <<ret, procs, calls>>
ttlVars == <<now, ttldb, skList, mutex, sweep, client, hist>>
vars == <<data, ret, procs, calls, now, ttldb, skList, mutex, sweep, client, hist>>

(***************************************************************************)
(* Bounds                                                                  *)
(***************************************************************************)
MaxN == 2          \* largest n handed to Next / Prev
MaxSeq == 2        \* NextSequence calls in a run
MaxCalls == 4      \* Put / Delete calls of the concurrent callers in a run
MaxTime == 4       \* the clock stops here
MaxTTL == 2        \* largest ttl handed to SetTTL / Put
MaxPuts == 2       \* TTLCache.Put calls in a run
MaxIndex == 2      \* index entries at which the caller of any key stops setting TTLs

(***************************************************************************)
(* Byte strings                                                            *)
(***************************************************************************)
Min(a, b) == IF a < b THEN a ELSE b

\* bytes.Compare: -1, 0, 1 by byte-wise lexicographic order
BytesCompare(a, b) ==
    LET n == Min(Len(a), Len(b))
        diff == {i \in 1..n : a[i] # b[i]}
    IN  IF diff = {}
        THEN IF Len(a) < Len(b) THEN -1 ELSE IF Len(a) > Len(b) THEN 1 ELSE 0
        ELSE LET i == CHOOSE x \in diff : \A y \in diff : x <= y
             IN  IF a[i] < b[i] THEN -1 ELSE 1

\* bytes.Equal (nil and the empty slice are equal)
BytesEqual(a, b) == BytesCompare(a, b) = 0

\* "__key_for_count__"
keyForCount == <<95, 95, 107, 101, 121, 95, 102, 111, 114, 95, 99, 111, 117, 110, 116, 95, 95>>

\* "__key_for_sequence__"
keyForSequence ==
    <<95, 95, 107, 101, 121, 95, 102, 111, 114, 95, 115, 101, 113, 117, 101, 110, 99, 101, 95, 95>>

reservedlKeys == <<keyForCount, keyForSequence>>

\* a test that knows the count key alone
isReservedlKeyCountOnly(key) == BytesEqual(key, keyForCount)

isReservedlKey(key) == \E i \in 1..Len(reservedlKeys) : BytesEqual(key, reservedlKeys[i])

(***************************************************************************)
(* uint64 as decimal digits, most significant first, no leading zero       *)
(***************************************************************************)
U64Zero == <<0>>

\* math.MaxUint64 = 18446744073709551615
U64Max == <<1, 8, 4, 4, 6, 7, 4, 4, 0, 7, 3, 7, 0, 9, 5, 5, 1, 6, 1, 5>>

RECURSIVE DecInc(_)
DecInc(d) ==
    IF d = <<>> THEN <<1>>
    ELSE IF d[Len(d)] < 9 THEN [d EXCEPT ![Len(d)] = @ + 1]
    ELSE DecInc(SubSeq(d, 1, Len(d) - 1)) \o <<0>>

RECURSIVE DecDec(_)
DecDec(d) ==
    IF d[Len(d)] > 0 THEN [d EXCEPT ![Len(d)] = @ - 1]
    ELSE DecDec(SubSeq(d, 1, Len(d) - 1)) \o <<9>>

RECURSIVE StripZeros(_)
StripZeros(d) == IF Len(d) > 1 /\ d[1] = 0 THEN StripZeros(Tail(d)) ELSE d

\* x + 1 on uint64
U64Add1(d) == IF d = U64Max THEN U64Zero ELSE DecInc(d)

\* x - 1 on uint64: 0 - 1 wraps to MaxUint64
U64Sub1(d) == IF d = U64Zero THEN U64Max ELSE StripZeros(DecDec(d))

RECURSIVE NatDigits(_)
NatDigits(n) == IF n < 10 THEN <<n>> ELSE NatDigits(n \div 10) \o <<n % 10>>

\* uint64(n) for a small natural n
U64(n) == NatDigits(n)

RECURSIVE DigitsNat(_)
DigitsNat(d) == IF d = <<>> THEN 0 ELSE 10 * DigitsNat(SubSeq(d, 1, Len(d) - 1)) + d[Len(d)]

\* int(x) of a uint64 on a 64-bit build: small values as they are; the values
\* the wrap produces (MaxUint64 - j, j small) are the negative -(j+1)
U64ToInt(d) ==
    IF Len(d) <= 9 THEN DigitsNat(d)
    ELSE -(1 + DigitsNat(SubSeq(U64Max, 12, 20)) - DigitsNat(SubSeq(d, 12, 20)))

\* strconv.FormatUint(x, 10): the ASCII digits
FormatUint(d) == [i \in 1..Len(d) |-> d[i] + 48]

\* strconv.ParseUint(s, 10, 64): the value, or an error for a non-digit or ""
ParseUint(s) ==
    IF s # <<>> /\ \A i \in 1..Len(s) : s[i] \in 48..57
    THEN [ok |-> TRUE, val |-> StripZeros([i \in 1..Len(s) |-> s[i] - 48])]
    ELSE [ok |-> FALSE, val |-> U64Zero]

(***************************************************************************)
(* KVStore                                                                 *)
(***************************************************************************)
\* leveldb.OpenFile on a fresh path: no key at all
EmptyDB == << >>

Has(db, key) == key \in DOMAIN db

\* leveldb Put: sets one key
dbPut(db, key, value) == [k \in DOMAIN db \cup {key} |-> IF k = key THEN value ELSE db[k]]

\* leveldb Delete: removes one key, absent or not
dbDelete(db, key) == [k \in DOMAIN db \ {key} |-> db[k]]

count(db) ==
    IF ~Has(db, keyForCount) THEN U64Zero
    ELSE LET p == ParseUint(db[keyForCount]) IN IF p.ok THEN p.val ELSE U64Zero

Count(db) == count(db)

currentSequence(db) ==
    IF ~Has(db, keyForSequence) THEN U64Zero
    ELSE LET p == ParseUint(db[keyForSequence]) IN IF p.ok THEN p.val ELSE U64Zero

CurrentSequence(db) == currentSequence(db)

\* Put, key present at the Has check: a bare leveldb Put, the count untouched
PutOverwrite(db, key, value) == dbPut(db, key, value)

\* a Put of a new key that writes the value alone, without the count
PutInsertNoCount(db, key, value) == dbPut(db, key, value)

\* Put, key absent at the Has check: under the mutex, one batch of the value and count+1
PutInsert(db, key, value) ==
    dbPut(dbPut(db, key, value), keyForCount, FormatUint(U64Add1(count(db))))

\* Delete, key present at the Has check: under the mutex, one batch of the
\* removal and count-1
DeleteCommit(db, key) ==
    dbPut(dbDelete(db, key), keyForCount, FormatUint(U64Sub1(count(db))))

\* KVStore.Put run without interleaving: the store after it, and whether it failed
Put(db, key, value) ==
    IF isReservedlKey(key) THEN [db |-> db, err |-> TRUE]
    ELSE IF Has(db, key) THEN [db |-> PutOverwrite(db, key, value), err |-> FALSE]
    ELSE [db |-> PutInsert(db, key, value), err |-> FALSE]

\* KVStore.Get: the value, or an error for a reserved or absent key
Get(db, key) ==
    IF isReservedlKey(key) THEN [err |-> TRUE, value |-> <<>>]
    ELSE IF Has(db, key) THEN [err |-> FALSE, value |-> db[key]]
    ELSE [err |-> TRUE, value |-> <<>>]

\* KVStore.Delete run without interleaving
Delete(db, key) ==
    IF isReservedlKey(key) THEN [db |-> db, err |-> TRUE]
    ELSE IF Has(db, key) THEN [db |-> DeleteCommit(db, key), err |-> FALSE]
    ELSE [db |-> db, err |-> TRUE]

\* KVStore.NextSequence
NextSequence(db) ==
    LET sequence == U64Add1(currentSequence(db))
    IN  [db |-> dbPut(db, keyForSequence, FormatUint(sequence)), sequence |-> sequence]

(***************************************************************************)
(* leveldb iterator over the whole database, and Next / Prev               *)
(***************************************************************************)
RECURSIVE SortKeys(_)
SortKeys(S) ==
    IF S = {} THEN <<>>
    ELSE LET m == CHOOSE x \in S : \A y \in S : BytesCompare(x, y) <= 0
         IN  <<m>> \o SortKeys(S \ {m})

\* the keys in iteration order
IterKeys(db) == SortKeys(DOMAIN db)

\* iterator positions: 1..Len(keys) valid, 0 invalid
IterFirst(keys) == IF Len(keys) > 0 THEN 1 ELSE 0
IterLast(keys) == Len(keys)

\* Seek: the first key >= the target, invalid when there is none
IterSeek(keys, key) ==
    LET ge == {i \in 1..Len(keys) : BytesCompare(keys[i], key) >= 0}
    IN  IF ge = {} THEN 0 ELSE CHOOSE i \in ge : \A j \in ge : i <= j

IterNext(keys, p) == IF p < Len(keys) THEN p + 1 ELSE 0
IterPrev(keys, p) == p - 1

RECURSIVE NextLoop(_, _, _, _, _)
NextLoop(keys, p, key, n, acc) ==
    IF ~(p # 0 /\ Len(acc) < n) THEN acc
    ELSE IF BytesEqual(keys[p], key) \/ isReservedlKey(keys[p])
         THEN NextLoop(keys, IterNext(keys, p), key, n, acc)
         ELSE NextLoop(keys, IterNext(keys, p), key, n, Append(acc, keys[p]))

\* a Next that filters the reserved keys but not the current key
NextKeepCurrent(db, key, n) ==
    LET keys == IterKeys(db)
        p == IF BytesEqual(key, <<>>) THEN IterFirst(keys) ELSE IterSeek(keys, key)
    IN  NextLoop(keys, p, <<>>, n, <<>>)

Next(db, key, n) ==
    LET keys == IterKeys(db)
        p == IF BytesEqual(key, <<>>) THEN IterFirst(keys) ELSE IterSeek(keys, key)
    IN  NextLoop(keys, p, key, n, <<>>)

RECURSIVE PrevLoop(_, _, _, _, _)
PrevLoop(keys, p, key, n, acc) ==
    IF ~(p # 0 /\ Len(acc) < n) THEN acc
    ELSE IF BytesEqual(keys[p], key) \/ isReservedlKey(keys[p])
         THEN PrevLoop(keys, IterPrev(keys, p), key, n, acc)
         ELSE PrevLoop(keys, IterPrev(keys, p), key, n, Append(acc, keys[p]))

Prev(db, key, n) ==
    LET keys == IterKeys(db)
        p == IF BytesEqual(key, <<>>) THEN IterLast(keys) ELSE IterSeek(keys, key)
    IN  PrevLoop(keys, p, key, n, <<>>)

(***************************************************************************)
(* TTLInfo and its JSON form                                               *)
(***************************************************************************)
NoInfo == [Key |-> <<>>, CreateTime |-> 0, TTL |-> 0, ExpiredTime |-> 0]

\* a Less that breaks ties of ExpiredTime the wrong way round
LessTieReversed(info, other) ==
    \/ info.ExpiredTime < other.ExpiredTime
    \/ /\ info.ExpiredTime = other.ExpiredTime
       /\ BytesCompare(info.Key, other.Key) > 0

\* info.Less(other): by ExpiredTime, then by bytes.Compare of the keys
Less(info, other) ==
    \/ info.ExpiredTime < other.ExpiredTime
    \/ /\ info.ExpiredTime = other.ExpiredTime
       /\ BytesCompare(info.Key, other.Key) < 0

\* base64.StdEncoding of a []byte, as encoding/json writes it: the alphabet
\* indexes of the sextets, 64 for the padding "="
RECURSIVE Base64Encode(_)
Base64Encode(b) ==
    IF Len(b) = 0 THEN <<>>
    ELSE IF Len(b) = 1 THEN <<b[1] \div 4, (b[1] % 4) * 16, 64, 64>>
    ELSE IF Len(b) = 2
         THEN <<b[1] \div 4, (b[1] % 4) * 16 + b[2] \div 16, (b[2] % 16) * 4, 64>>
    ELSE <<b[1] \div 4, (b[1] % 4) * 16 + b[2] \div 16, (b[2] % 16) * 4 + b[3] \div 64,
           b[3] % 64>> \o Base64Encode(SubSeq(b, 4, Len(b)))

RECURSIVE Base64Decode(_)
Base64Decode(e) ==
    IF Len(e) < 4 THEN <<>>
    ELSE LET b1 == e[1] * 4 + e[2] \div 16
             b2 == (e[2] % 16) * 16 + e[3] \div 4
             b3 == (e[3] % 4) * 64 + e[4]
         IN  IF e[3] = 64 THEN <<b1>>
             ELSE IF e[4] = 64 THEN <<b1, b2>>
             ELSE <<b1, b2, b3>> \o Base64Decode(SubSeq(e, 5, Len(e)))

\* json.Marshal(info): an object under the struct's json tags
Marshal(info) ==
    ("key" :> Base64Encode(info.Key)) @@ ("create-time" :> info.CreateTime)
        @@ ("ttl" :> info.TTL) @@ ("expired-time" :> info.ExpiredTime)

\* json.Unmarshal(value, info) of a document Marshal wrote
Unmarshal(value) ==
    [Key |-> Base64Decode(value["key"]), CreateTime |-> value["create-time"],
     TTL |-> value["ttl"], ExpiredTime |-> value["expired-time"]]

(***************************************************************************)
(* The expiration index (skiplist.SkipList ordered by Less)                *)
(***************************************************************************)
skNew == <<>>

\* Insert: before the first element that is not Less than v
skInsert(l, v) ==
    LET lt == {i \in 1..Len(l) : Less(l[i], v)}
        k == Cardinality(lt)
    IN  SubSeq(l, 1, k) \o <<v>> \o SubSeq(l, k + 1, Len(l))

\* Delete: removes the first element equal to v under Less, if there is one
skDelete(l, v) ==
    LET eq == {i \in 1..Len(l) : ~Less(l[i], v) /\ ~Less(v, l[i])}
    IN  IF eq = {} THEN l
        ELSE LET k == CHOOSE i \in eq : \A j \in eq : i <= j
             IN  SubSeq(l, 1, k - 1) \o SubSeq(l, k + 1, Len(l))

(***************************************************************************)
(* TTLChecker: the index and its store, changed under c.mutex              *)
(***************************************************************************)
GetInfo(db, key) ==
    LET r == Get(db, key)
    IN  IF r.err THEN [err |-> TRUE, info |-> NoInfo]
        ELSE [err |-> FALSE, info |-> Unmarshal(r.value)]

GetKeyCount(db) == Count(db)

addIndex(l, db, info, writeDB) ==
    LET r == IF writeDB THEN Put(db, info.Key, Marshal(info)) ELSE [db |-> db, err |-> FALSE]
    IN  [skList |-> skInsert(l, info), db |-> r.db, err |-> r.err]

deleteIndex(l, db, info) ==
    LET r == Delete(db, info.Key)
    IN  [skList |-> skDelete(l, info), db |-> r.db, err |-> r.err]

RECURSIVE loadKeys(_, _, _)
loadKeys(allKeyBytes, db, l) ==
    IF allKeyBytes = <<>> THEN l
    ELSE LET r == GetInfo(db, Head(allKeyBytes))
         IN  loadKeys(Tail(allKeyBytes), db,
                      IF r.err THEN l ELSE addIndex(l, db, r.info, FALSE).skList)

\* a loadAllData that asks Next for one key too few
loadAllDataShort(db) ==
    LET keyCount == Count(db)
    IN  loadKeys(Next(db, <<>>, U64ToInt(keyCount) - 1), db, skNew)

\* loadAllData: the index rebuilt from the first Count() keys of the store
loadAllData(db) ==
    LET keyCount == Count(db)
    IN  loadKeys(Next(db, <<>>, U64ToInt(keyCount)), db, skNew)

\* a SetTTL that leaves the record it found in the index: TTLs stack
SetTTLCheckStacking(l, db, key, createTime, ttl) ==
    IF createTime <= 0 \/ ttl <= 0
    THEN [done |-> TRUE, err |-> TRUE, skList |-> l, db |-> db]
    ELSE LET r == GetInfo(db, key)
         IN  IF ~r.err /\ r.info.CreateTime = createTime /\ r.info.TTL = ttl
             THEN [done |-> TRUE, err |-> FALSE, skList |-> l, db |-> db]
             ELSE [done |-> FALSE, err |-> FALSE, skList |-> l, db |-> db]

\* a SetTTL that tests its arguments after it has dropped the record it found
SetTTLCheckLate(l, db, key, createTime, ttl) ==
    LET r == GetInfo(db, key)
        d == deleteIndex(l, db, r.info)
    IN  IF ~r.err /\ r.info.CreateTime = createTime /\ r.info.TTL = ttl
        THEN [done |-> TRUE, err |-> FALSE, skList |-> l, db |-> db]
        ELSE IF createTime <= 0 \/ ttl <= 0
        THEN [done |-> TRUE, err |-> TRUE,
              skList |-> IF r.err THEN l ELSE d.skList, db |-> IF r.err THEN db ELSE d.db]
        ELSE [done |-> FALSE, err |-> FALSE,
              skList |-> IF r.err THEN l ELSE d.skList, db |-> IF r.err THEN db ELSE d.db]

\* a SetTTL that replaces the record it finds, the same or not
SetTTLCheckAlwaysReplace(l, db, key, createTime, ttl) ==
    IF createTime <= 0 \/ ttl <= 0
    THEN [done |-> TRUE, err |-> TRUE, skList |-> l, db |-> db]
    ELSE LET r == GetInfo(db, key)
         IN  IF ~r.err
             THEN LET d == deleteIndex(l, db, r.info)
                  IN  [done |-> FALSE, err |-> FALSE, skList |-> d.skList, db |-> d.db]
             ELSE [done |-> FALSE, err |-> FALSE, skList |-> l, db |-> db]

\* SetTTL from the argument check to deleteIndex, what it returns early (done),
\* and the index and the store it leaves
SetTTLCheck(l, db, key, createTime, ttl) ==
    IF createTime <= 0 \/ ttl <= 0
    THEN [done |-> TRUE, err |-> TRUE, skList |-> l, db |-> db]
    ELSE LET r == GetInfo(db, key)
         IN  IF ~r.err /\ r.info.CreateTime = createTime /\ r.info.TTL = ttl
             THEN [done |-> TRUE, err |-> FALSE, skList |-> l, db |-> db]
             ELSE IF ~r.err
             THEN LET d == deleteIndex(l, db, r.info)
                  IN  [done |-> FALSE, err |-> FALSE, skList |-> d.skList, db |-> d.db]
             ELSE [done |-> FALSE, err |-> FALSE, skList |-> l, db |-> db]

\* a SetTTL that takes the ttl for the expiry time
SetTTLAddNoCreateTime(l, db, key, createTime, ttl) ==
    addIndex(l, db,
             [Key |-> key, CreateTime |-> createTime, TTL |-> ttl, ExpiredTime |-> ttl],
             TRUE)

\* SetTTL from the new TTLInfo to addIndex
SetTTLAdd(l, db, key, createTime, ttl) ==
    addIndex(l, db,
             [Key |-> key, CreateTime |-> createTime, TTL |-> ttl,
              ExpiredTime |-> createTime + ttl],
             TRUE)

\* a test that lets a record live one second too long
sweepStopsLate(l, pos, t) == pos > Len(l) \/ l[pos].ExpiredTime + 1 >= t

\* checkExpired's test of the element at hand: does the pass stop here
sweepStops(l, pos, t) == pos > Len(l) \/ l[pos].ExpiredTime >= t

(***************************************************************************)
(* The goroutines of a TTLChecker                                          *)
(***************************************************************************)
NoRet == [op |-> "none", key |-> <<>>, n |-> 0, err |-> FALSE, keys |-> <<>>]

NoProcs == [p \in {} |-> 0]

IdleSweep == [pc |-> "idle", now |-> 0, pos |-> 0, info |-> NoInfo]
StoppedSweep == [IdleSweep EXCEPT !.pc = "stopped"]

IdleClient ==
    [pc |-> "idle", op |-> "none", key |-> <<>>, value |-> <<>>, createTime |-> 0,
     ttl |-> 0, old |-> "none", err |-> FALSE]

\* the caller back from a call: what it called, on which key, what record the key
\* had ("none", "same" as the one asked for, "replaced", "deleted"), and the result
Returned(op, key, old, err) ==
    [IdleClient EXCEPT !.op = op, !.key = key, !.old = old, !.err = err]

NoHist == [cbPrev |-> NoInfo, passCb |-> <<>>, pass0 |-> <<>>]

\* no TTLChecker: the variables of one, left alone by the KVStore specifications
NoChecker ==
    /\ now = 0
    /\ ttldb = EmptyDB
    /\ skList = skNew
    /\ mutex = "free"
    /\ sweep = StoppedSweep
    /\ client = IdleClient
    /\ hist = NoHist

\* a second of the clock
Tick ==
    /\ now < MaxTime
    /\ now' = now + 1
    /\ UNCHANGED <<data, kvVars, ttldb, skList, mutex, sweep, client, hist>>

\* startCheckLoop's ticker fires: checkExpired takes the mutex and reads the clock
SweepStart ==
    /\ sweep.pc = "idle"
    /\ mutex = "free"
    /\ mutex' = "sweep"
    /\ sweep' = [pc |-> "loop", now |-> now, pos |-> 1, info |-> NoInfo]
    /\ hist' = [hist EXCEPT !.passCb = <<>>, !.pass0 = skList]
    /\ UNCHANGED <<data, kvVars, now, ttldb, skList, client>>

\* a loop that deletes the element from the index and the store before the callback
SweepLoopRemoveFirst ==
    /\ sweep.pc = "loop"
    /\ IF sweepStops(skList, sweep.pos, sweep.now)
       THEN /\ sweep' = [sweep EXCEPT !.pc = "unlock", !.info = NoInfo]
            /\ UNCHANGED <<skList, ttldb>>
       ELSE LET r == deleteIndex(skList, ttldb, skList[sweep.pos])
            IN  /\ sweep' = [sweep EXCEPT !.pc = "callback", !.info = skList[sweep.pos]]
                /\ skList' = r.skList
                /\ ttldb' = r.db
    /\ UNCHANGED <<data, kvVars, now, mutex, client, hist>>

\* checkExpired's loop head: leave at the end of the list or at the first element
\* that has not expired, else take the element
SweepLoop ==
    /\ sweep.pc = "loop"
    /\ sweep' = IF sweepStops(skList, sweep.pos, sweep.now)
                THEN [sweep EXCEPT !.pc = "unlock", !.info = NoInfo]
                ELSE [sweep EXCEPT !.pc = "callback", !.info = skList[sweep.pos]]
    /\ UNCHANGED <<data, kvVars, now, ttldb, skList, mutex, client, hist>>

\* c.callback(info) of a TTLChecker opened with a callback that touches nothing
CheckerCallback ==
    /\ sweep.pc = "callback"
    /\ sweep' = [sweep EXCEPT !.pc = "remove"]
    /\ hist' = [hist EXCEPT !.passCb = Append(@, sweep.info)]
    /\ UNCHANGED <<data, kvVars, now, ttldb, skList, mutex, client>>

\* c.deleteIndex(info), then element.Next(): the element after the deleted one
SweepRemove ==
    /\ sweep.pc = "remove"
    /\ LET r == deleteIndex(skList, ttldb, sweep.info)
       IN  /\ skList' = r.skList
           /\ ttldb' = r.db
           /\ sweep' = [sweep EXCEPT !.pc = "loop", !.info = NoInfo,
                           !.pos = IF Len(r.skList) < Len(skList) THEN @ ELSE @ + 1]
    /\ UNCHANGED <<data, kvVars, now, mutex, client, hist>>

\* checkExpired returns: the deferred Unlock
SweepUnlock ==
    /\ sweep.pc = "unlock"
    /\ mutex' = "free"
    /\ sweep' = IdleSweep
    /\ hist' = [cbPrev |-> IF hist.passCb = <<>> THEN hist.cbPrev
                            ELSE hist.passCb[Len(hist.passCb)],
                 passCb |-> <<>>, pass0 |-> <<>>]
    /\ UNCHANGED <<data, kvVars, now, ttldb, skList, client>>

\* SetTTL takes the mutex and runs up to deleteIndex
SetTTLLock ==
    /\ client.pc = "setttl_lock"
    /\ mutex = "free"
    /\ LET r == SetTTLCheck(skList, ttldb, client.key, client.createTime, client.ttl)
           g == GetInfo(ttldb, client.key)
           old == IF g.err \/ (r.done /\ r.err) THEN "none"
                  ELSE IF r.done THEN "same" ELSE "replaced"
       IN  /\ skList' = r.skList
           /\ ttldb' = r.db
           /\ mutex' = IF r.done THEN "free" ELSE "client"
           /\ client' = IF r.done THEN Returned(client.op, client.key, old, r.err)
                        ELSE [client EXCEPT !.pc = "setttl_add", !.old = old]
    /\ UNCHANGED <<data, kvVars, now, sweep, hist>>

\* SetTTL adds the new TTLInfo and returns
SetTTLFinish ==
    /\ client.pc = "setttl_add"
    /\ LET r == SetTTLAdd(skList, ttldb, client.key, client.createTime, client.ttl)
       IN  /\ skList' = r.skList
           /\ ttldb' = r.db
           /\ client' = Returned(client.op, client.key, client.old, r.err)
    /\ mutex' = "free"
    /\ UNCHANGED <<data, kvVars, now, sweep, hist>>

\* TTLChecker.SetTTL(key, createTime, ttl) is called
CallSetTTL(key, createTime, ttl) ==
    /\ client.pc = "idle"
    /\ client' = [IdleClient EXCEPT !.pc = "setttl_lock", !.op = "SetTTL", !.key = key,
                     !.createTime = createTime, !.ttl = ttl]
    /\ UNCHANGED <<data, kvVars, now, ttldb, skList, mutex, sweep, hist>>

\* TTLChecker.Delete(key), all of it under the mutex
CallDelete(key) ==
    /\ client.pc = "idle"
    /\ mutex = "free"
    /\ LET g == GetInfo(ttldb, key)
           r == deleteIndex(skList, ttldb, g.info)
       IN  IF g.err
           THEN /\ client' = Returned("Delete", key, "none", TRUE)
                /\ UNCHANGED <<skList, ttldb>>
           ELSE /\ client' = Returned("Delete", key, "deleted", r.err)
                /\ skList' = r.skList
                /\ ttldb' = r.db
    /\ UNCHANGED <<data, kvVars, now, mutex, sweep, hist>>

\* TTLChecker.Close is called: it blocks in the send on the unbuffered stopChan
CallClose ==
    /\ client.pc = "idle"
    /\ client' = [IdleClient EXCEPT !.pc = "close_send", !.op = "Close"]
    /\ UNCHANGED <<data, kvVars, now, ttldb, skList, mutex, sweep, hist>>

\* a loop that takes the stop signal wherever it is, in the middle of a pass too
CloseStopMidPass ==
    /\ client.pc = "close_send"
    /\ sweep.pc # "stopped"
    /\ sweep' = StoppedSweep
    /\ client' = [client EXCEPT !.pc = "close_db"]
    /\ UNCHANGED <<data, kvVars, now, ttldb, skList, mutex, hist>>

\* the send on stopChan is taken by the loop at its select, where the loop is
\* between two passes; the loop returns
CloseStop ==
    /\ client.pc = "close_send"
    /\ sweep.pc = "idle"
    /\ sweep' = StoppedSweep
    /\ client' = [client EXCEPT !.pc = "close_db"]
    /\ UNCHANGED <<data, kvVars, now, ttldb, skList, mutex, hist>>

\* TTLChecker.Close: close(stopChan) and c.db.Close(); the index goes with the object
CloseDB ==
    /\ client.pc = "close_db"
    /\ client' = [client EXCEPT !.pc = "closed"]
    /\ skList' = skNew
    /\ UNCHANGED <<data, kvVars, now, ttldb, mutex, sweep, hist>>

\* Open of a new TTLChecker at the same path, up to loadAllData
OpenLoad ==
    /\ client.pc = "closed"
    /\ skList' = loadAllData(ttldb)
    /\ client' = [IdleClient EXCEPT !.pc = "open_loop", !.op = "Open"]
    /\ UNCHANGED <<data, kvVars, now, ttldb, mutex, sweep, hist>>

\* Open: startCheckLoop
OpenStartLoop ==
    /\ client.pc = "open_loop"
    /\ sweep' = IdleSweep
    /\ client' = Returned("Open", <<>>, "none", FALSE)
    /\ UNCHANGED <<data, kvVars, now, ttldb, skList, mutex, hist>>

(***************************************************************************)
(* A TTLChecker with one caller                                            *)
(***************************************************************************)
\* "1", "2"
TTLKeys == {<<49>>, <<50>>}

\* the int64 arguments a caller passes: zero, which SetTTL rejects, and above
CreateTimes == 0..MaxTime

TTLs == 0..MaxTTL

InitChecker ==
    /\ data = EmptyDB
    /\ ret = NoRet
    /\ procs = NoProcs
    /\ calls = 0
    /\ now = 1
    /\ ttldb = EmptyDB
    /\ skList = skNew
    /\ mutex = "free"
    /\ sweep = IdleSweep
    /\ client = IdleClient
    /\ hist = NoHist

NextChecker ==
    \/ Tick
    \/ SweepStart
    \/ SweepLoop
    \/ CheckerCallback
    \/ SweepRemove
    \/ SweepUnlock
    \/ \E key \in TTLKeys, createTime \in CreateTimes, ttl \in TTLs :
            CallSetTTL(key, createTime, ttl)
    \/ SetTTLLock
    \/ SetTTLFinish
    \/ \E key \in TTLKeys : CallDelete(key)
    \/ CallClose
    \/ CloseStop
    \/ CloseDB
    \/ OpenLoad
    \/ OpenStartLoop

SpecChecker == InitChecker /\ [][NextChecker]_vars

\* "1" and the count key: the keys of a caller that passes a reserved key too
AnyKeys == {<<49>>, keyForCount}

\* a TTLChecker whose caller sets and deletes TTLs of any key while the sweep runs
NextCheckerAnyKey ==
    \/ Tick
    \/ SweepStart
    \/ SweepLoop
    \/ CheckerCallback
    \/ SweepRemove
    \/ SweepUnlock
    \/ \E key \in AnyKeys, createTime \in CreateTimes, ttl \in TTLs :
            Len(skList) < MaxIndex /\ CallSetTTL(key, createTime, ttl)
    \/ SetTTLLock
    \/ SetTTLFinish
    \/ \E key \in AnyKeys : CallDelete(key)

SpecCheckerAnyKey == InitChecker /\ [][NextCheckerAnyKey]_vars

\* a TTLChecker that is closed and opened again while a caller sets TTLs that
\* expire within the first seconds, and deletes them
NextShutdown ==
    \/ Tick
    \/ SweepStart
    \/ SweepLoop
    \/ CheckerCallback
    \/ SweepRemove
    \/ SweepUnlock
    \/ \E key \in TTLKeys, createTime \in {1, 2} : CallSetTTL(key, createTime, 1)
    \/ SetTTLLock
    \/ SetTTLFinish
    \/ \E key \in TTLKeys : CallDelete(key)
    \/ CallClose
    \/ CloseStop
    \/ CloseDB
    \/ OpenLoad
    \/ OpenStartLoop

\* the loop's select takes a ready case at random, so a stop signal that waits is
\* taken at one of the selects; a goroutine that can take a step takes it, and the
\* callback returns
FairSpecShutdown ==
    /\ InitChecker
    /\ [][NextShutdown]_vars
    /\ WF_vars(SweepLoop)
    /\ WF_vars(CheckerCallback)
    /\ WF_vars(SweepRemove)
    /\ WF_vars(SweepUnlock)
    /\ SF_vars(CloseStop)
    /\ WF_vars(CloseDB)

(***************************************************************************)
(* TTLCache: a value store and a TTLChecker whose callback deletes from it *)
(***************************************************************************)
\* "v1", "v2"
Values == {<<118, 49>>, <<118, 50>>}

\* "1", "2"
CacheKeys == {<<49>>, <<50>>}

\* TTLCache.Put is called: dataStore.Put up to its Has test
CallPut(key, value, ttl) ==
    /\ client.pc = "idle"
    /\ calls < MaxPuts
    /\ calls' = calls + 1
    /\ client' = IF isReservedlKey(key) THEN Returned("Put", key, "none", TRUE)
                 ELSE [IdleClient EXCEPT
                          !.pc = IF Has(data, key) THEN "put_overwrite" ELSE "put_insert",
                          !.op = "Put", !.key = key, !.value = value, !.ttl = ttl]
    /\ UNCHANGED <<data, ret, procs, now, ttldb, skList, mutex, sweep, hist>>

\* dataStore.Put after Has returned true
CachePutOverwrite ==
    /\ client.pc = "put_overwrite"
    /\ data' = PutOverwrite(data, client.key, client.value)
    /\ client' = [client EXCEPT !.pc = "put_now"]
    /\ UNCHANGED <<kvVars, now, ttldb, skList, mutex, sweep, hist>>

\* dataStore.Put after Has returned false
CachePutInsert ==
    /\ client.pc = "put_insert"
    /\ data' = PutInsert(data, client.key, client.value)
    /\ client' = [client EXCEPT !.pc = "put_now"]
    /\ UNCHANGED <<kvVars, now, ttldb, skList, mutex, sweep, hist>>

\* TTLCache.Put reads the clock for SetTTL(key, time.Now().Unix(), ttl)
CachePutNow ==
    /\ client.pc = "put_now"
    /\ client' = [client EXCEPT !.pc = "setttl_lock", !.createTime = now]
    /\ UNCHANGED <<data, kvVars, now, ttldb, skList, mutex, sweep, hist>>

\* a Get that tests the key's expiry when it reads
CacheGetCheckOnRead(key) ==
    LET g == GetInfo(ttldb, key)
    IN  IF ~g.err /\ g.info.ExpiredTime < now THEN [err |-> TRUE, value |-> <<>>]
        ELSE Get(data, key)

\* TTLCache.Get(key)
CacheGet(key) == Get(data, key)

\* TTLCache.Get is called and returns
CallGet(key) ==
    /\ client.pc = "idle"
    /\ client' = [Returned("Get", key, "none", CacheGet(key).err) EXCEPT
                     !.value = CacheGet(key).value]
    /\ UNCHANGED <<data, kvVars, now, ttldb, skList, mutex, sweep, hist>>

\* TTLCache.Close has closed the value store: leveldb answers ErrClosed to every
\* call from there on, so KVStore.Has is false and a Write changes nothing
dataStoreClosed == client.op = "CacheClose" /\ client.pc \in {"close_send", "close_db", "closed"}

\* onKeyExpiredCallback: dataStore.Delete(info.Key) up to its Has test
CacheCallbackBegin ==
    /\ sweep.pc = "callback"
    /\ IF ~isReservedlKey(sweep.info.Key) /\ ~dataStoreClosed /\ Has(data, sweep.info.Key)
       THEN /\ sweep' = [sweep EXCEPT !.pc = "callback_delete"]
            /\ UNCHANGED hist
       ELSE /\ sweep' = [sweep EXCEPT !.pc = "remove"]
            /\ hist' = [hist EXCEPT !.passCb = Append(@, sweep.info)]
    /\ UNCHANGED <<data, kvVars, now, ttldb, skList, mutex, client>>

\* onKeyExpiredCallback: dataStore.Delete's locked batch, and the return
CacheCallbackDelete ==
    /\ sweep.pc = "callback_delete"
    /\ data' = IF dataStoreClosed THEN data ELSE DeleteCommit(data, sweep.info.Key)
    /\ sweep' = [sweep EXCEPT !.pc = "remove"]
    /\ hist' = [hist EXCEPT !.passCb = Append(@, sweep.info)]
    /\ UNCHANGED <<kvVars, now, ttldb, skList, mutex, client>>

InitCache == InitChecker

NextCache ==
    \/ Tick
    \/ SweepStart
    \/ SweepLoop
    \/ CacheCallbackBegin
    \/ CacheCallbackDelete
    \/ SweepRemove
    \/ SweepUnlock
    \/ \E key \in CacheKeys, value \in Values, ttl \in 0..MaxTTL : CallPut(key, value, ttl)
    \/ CachePutOverwrite
    \/ CachePutInsert
    \/ CachePutNow
    \/ SetTTLLock
    \/ SetTTLFinish
    \/ \E key \in CacheKeys : CallGet(key)

Spec == InitCache /\ [][NextCache]_vars

\* TTLCache.Close is called: dataStore.Close(), then ttlChecker.Close(), which
\* blocks in its send on stopChan
CallCacheClose ==
    /\ client.pc = "idle"
    /\ client' = [IdleClient EXCEPT !.pc = "close_send", !.op = "CacheClose"]
    /\ UNCHANGED <<data, kvVars, now, ttldb, skList, mutex, sweep, hist>>

\* a TTLCache that is used and then closed
NextCacheClose ==
    \/ Tick
    \/ SweepStart
    \/ SweepLoop
    \/ CacheCallbackBegin
    \/ CacheCallbackDelete
    \/ SweepRemove
    \/ SweepUnlock
    \/ \E key \in CacheKeys, value \in Values, ttl \in 0..MaxTTL : CallPut(key, value, ttl)
    \/ CachePutOverwrite
    \/ CachePutInsert
    \/ CachePutNow
    \/ SetTTLLock
    \/ SetTTLFinish
    \/ \E key \in CacheKeys : CallGet(key)
    \/ CallCacheClose
    \/ CloseStop
    \/ CloseDB

SpecCacheClose == InitCache /\ [][NextCacheClose]_vars

\* the clock runs, the ticker keeps firing, sync.Mutex hands the lock to a waiter
\* (starvation mode), and a goroutine that can take a step takes it
FairSpec ==
    /\ Spec
    /\ WF_vars(Tick)
    /\ SF_vars(SweepStart)
    /\ WF_vars(SweepLoop)
    /\ WF_vars(CacheCallbackBegin)
    /\ WF_vars(CacheCallbackDelete)
    /\ WF_vars(SweepRemove)
    /\ WF_vars(SweepUnlock)
    /\ WF_vars(SetTTLFinish)

(***************************************************************************)
(* A KVStore used by one caller at a time                                  *)
(***************************************************************************)
\* "1", "10", "z": below the reserved keys, a prefix pair, above the reserved keys
StoreKeys == {<<49>>, <<49, 48>>, <<122>>}

\* nil/"", "0", "2", "`", "~": not stored; before, between and after the stored keys
QueryKeys == StoreKeys \cup {<<>>, <<48>>, <<50>>, <<96>>, <<126>>, keyForCount, keyForSequence}

SeqPut(key, value) ==
    LET r == Put(data, key, value)
    IN  /\ data' = r.db
        /\ ret' = [op |-> "Put", key |-> key, n |-> 0, err |-> r.err, keys |-> <<>>]
        /\ UNCHANGED <<procs, calls, ttlVars>>

SeqGet(key) ==
    LET r == Get(data, key)
    IN  /\ ret' = [op |-> "Get", key |-> key, n |-> 0, err |-> r.err, keys |-> <<r.value>>]
        /\ UNCHANGED <<data, procs, calls, ttlVars>>

SeqDelete(key) ==
    LET r == Delete(data, key)
    IN  /\ data' = r.db
        /\ ret' = [op |-> "Delete", key |-> key, n |-> 0, err |-> r.err, keys |-> <<>>]
        /\ UNCHANGED <<procs, calls, ttlVars>>

SeqNext(key, n) ==
    /\ ret' = [op |-> "Next", key |-> key, n |-> n, err |-> FALSE, keys |-> Next(data, key, n)]
    /\ UNCHANGED <<data, procs, calls, ttlVars>>

SeqPrev(key, n) ==
    /\ ret' = [op |-> "Prev", key |-> key, n |-> n, err |-> FALSE, keys |-> Prev(data, key, n)]
    /\ UNCHANGED <<data, procs, calls, ttlVars>>

SeqNextSequence ==
    LET r == NextSequence(data)
    IN  /\ U64ToInt(currentSequence(data)) < MaxSeq
        /\ data' = r.db
        /\ ret' = [op |-> "NextSequence", key |-> <<>>, n |-> 0, err |-> FALSE,
                   keys |-> <<r.sequence>>]
        /\ UNCHANGED <<procs, calls, ttlVars>>

InitKV ==
    /\ data = EmptyDB
    /\ ret = NoRet
    /\ procs = NoProcs
    /\ calls = 0
    /\ NoChecker

NextKV ==
    \/ \E key \in StoreKeys \cup {keyForCount, keyForSequence}, value \in Values : SeqPut(key, value)
    \/ \E key \in StoreKeys \cup {keyForCount, keyForSequence} : SeqGet(key)
    \/ \E key \in StoreKeys \cup {keyForCount, keyForSequence} : SeqDelete(key)
    \/ \E key \in QueryKeys, n \in 0..MaxN : SeqNext(key, n)
    \/ \E key \in QueryKeys, n \in 0..MaxN : SeqPrev(key, n)
    \/ SeqNextSequence

SpecKV == InitKV /\ [][NextKV]_vars

(***************************************************************************)
(* A KVStore used by two callers at once: Put and Delete test Has(key)     *)
(* before they take the mutex                                              *)
(***************************************************************************)
Callers == {1, 2}

\* "1", "2"
ConcKeys == {<<49>>, <<50>>}

IdleProc == [pc |-> "idle", key |-> <<>>, value |-> <<>>, sequence |-> U64Zero]

\* kv.mutex is free: the one caller that keeps it over two steps is in NextSequence
kvMutexFree == \A p \in DOMAIN procs : procs[p].pc # "seq_put"

\* Put up to the Has test: a reserved key returns at once
ConcPutBegin(p, key, value) ==
    /\ procs[p].pc = "idle"
    /\ calls < MaxCalls
    /\ calls' = calls + 1
    /\ procs' = [procs EXCEPT ![p] =
                    IF isReservedlKey(key) THEN IdleProc
                    ELSE [IdleProc EXCEPT
                             !.pc = IF Has(data, key) THEN "put_overwrite" ELSE "put_insert",
                             !.key = key, !.value = value]]
    /\ UNCHANGED <<data, ret, ttlVars>>

\* Put after Has returned true: kv.db.Put
ConcPutOverwrite(p) ==
    /\ procs[p].pc = "put_overwrite"
    /\ data' = PutOverwrite(data, procs[p].key, procs[p].value)
    /\ procs' = [procs EXCEPT ![p] = IdleProc]
    /\ UNCHANGED <<ret, calls, ttlVars>>

\* Put after Has returned false: the locked batch
ConcPutInsert(p) ==
    /\ procs[p].pc = "put_insert"
    /\ kvMutexFree
    /\ data' = PutInsert(data, procs[p].key, procs[p].value)
    /\ procs' = [procs EXCEPT ![p] = IdleProc]
    /\ UNCHANGED <<ret, calls, ttlVars>>

\* Delete up to the Has test: a reserved or absent key returns at once
ConcDeleteBegin(p, key) ==
    /\ procs[p].pc = "idle"
    /\ calls < MaxCalls
    /\ calls' = calls + 1
    /\ procs' = [procs EXCEPT ![p] =
                    IF ~isReservedlKey(key) /\ Has(data, key)
                    THEN [IdleProc EXCEPT !.pc = "delete", !.key = key]
                    ELSE IdleProc]
    /\ UNCHANGED <<data, ret, ttlVars>>

\* Delete after Has returned true: the locked batch
ConcDeleteCommit(p) ==
    /\ procs[p].pc = "delete"
    /\ kvMutexFree
    /\ data' = DeleteCommit(data, procs[p].key)
    /\ procs' = [procs EXCEPT ![p] = IdleProc]
    /\ UNCHANGED <<ret, calls, ttlVars>>

\* a NextSequence that reads the sequence without taking the mutex
ConcNextSequenceNoLock(p) ==
    /\ procs[p].pc = "idle"
    /\ Len(ret.keys) + Cardinality({q \in Callers : procs[q].pc = "seq_put"}) < MaxSeq
    /\ procs' = [procs EXCEPT ![p] =
                    [IdleProc EXCEPT !.pc = "seq_put",
                                     !.sequence = U64Add1(currentSequence(data))]]
    /\ UNCHANGED <<data, ret, calls, ttlVars>>

\* NextSequence: Lock, and sequence := currentSequence() + 1
ConcNextSequenceBegin(p) ==
    /\ procs[p].pc = "idle"
    /\ kvMutexFree
    /\ Len(ret.keys) + Cardinality({q \in Callers : procs[q].pc = "seq_put"}) < MaxSeq
    /\ procs' = [procs EXCEPT ![p] =
                    [IdleProc EXCEPT !.pc = "seq_put",
                                     !.sequence = U64Add1(currentSequence(data))]]
    /\ UNCHANGED <<data, ret, calls, ttlVars>>

\* NextSequence: the Put of the sequence key, the Unlock and the return; ret.keys
\* collects the values the calls returned, in the order of their return
ConcNextSequencePut(p) ==
    /\ procs[p].pc = "seq_put"
    /\ data' = dbPut(data, keyForSequence, FormatUint(procs[p].sequence))
    /\ ret' = [ret EXCEPT !.op = "NextSequence", !.keys = Append(@, procs[p].sequence)]
    /\ procs' = [procs EXCEPT ![p] = IdleProc]
    /\ UNCHANGED <<calls, ttlVars>>

InitConc ==
    /\ data = EmptyDB
    /\ ret = NoRet
    /\ procs = [p \in Callers |-> IdleProc]
    /\ calls = 0
    /\ NoChecker

NextConc ==
    \/ \E p \in Callers, key \in ConcKeys \cup {keyForCount}, value \in Values :
            ConcPutBegin(p, key, value)
    \/ \E p \in Callers : ConcPutOverwrite(p)
    \/ \E p \in Callers : ConcPutInsert(p)
    \/ \E p \in Callers, key \in ConcKeys \cup {keyForCount} : ConcDeleteBegin(p, key)
    \/ \E p \in Callers : ConcDeleteCommit(p)
    \/ \E p \in Callers : ConcNextSequenceBegin(p)
    \/ \E p \in Callers : ConcNextSequencePut(p)

SpecConc == InitConc /\ [][NextConc]_vars

(***************************************************************************)
(* Claims on the KVStore                                                   *)
(***************************************************************************)
UserKeys(db) == {k \in DOMAIN db : ~isReservedlKey(k)}

Reverse(s) == [i \in 1..Len(s) |-> s[Len(s) + 1 - i]]

FirstN(s, n) == SubSeq(s, 1, Min(n, Len(s)))

\* C6: whenever no Put or Delete of the concurrent callers is in progress, Count()
\* is the number of non-reserved keys in the store (so it never wraps below zero).
C6_CountUnderConcurrency ==
    (\A p \in DOMAIN procs : procs[p].pc = "idle")
        => Count(data) = U64(Cardinality(UserKeys(data)))

\* C7: after any sequence of Put and Delete calls made one at a time, Count() is
\* the number of non-reserved keys stored; a failed call leaves the store unchanged.
C7_CountRoundTrip == Count(data) = U64(Cardinality(UserKeys(data)))

\* two keys were inserted and one of them deleted: Count() is 1
C7_Witness ==
    /\ ret.op = "Delete"
    /\ ~ret.err
    /\ Cardinality(UserKeys(data)) = 1
    /\ Count(data) = U64(1)

\* C8: Prev(key, n) is the min(n, m) largest non-reserved keys strictly below key,
\* in descending order; for the empty key the n largest non-reserved keys.
C8_PrevResult ==
    ret.op = "Prev" =>
        LET below(k) == ret.key = <<>> \/ BytesCompare(k, ret.key) < 0
            all == Reverse(SelectSeq(SortKeys(UserKeys(data)), below))
        IN  ret.keys = FirstN(all, ret.n)

\* C9: Next(key, n) is the min(n, m) smallest non-reserved keys strictly above key,
\* in ascending order; the empty key means from the beginning.
C9_NextResult ==
    ret.op = "Next" =>
        LET above(k) == BytesCompare(k, ret.key) > 0
            all == SelectSeq(SortKeys(UserKeys(data)), above)
        IN  ret.keys = FirstN(all, ret.n)

\* Next from an absent key below the reserved keys, with both reserved keys and a
\* key above them stored: the reserved keys are passed over
C9_Witness ==
    /\ ret.op = "Next"
    /\ ret.key = <<50>>
    /\ ret.n = 2
    /\ Has(data, keyForCount)
    /\ Has(data, keyForSequence)
    /\ ret.keys = << <<122>> >>


(***************************************************************************)
(* Claims on the TTLChecker and the TTLCache                               *)
(***************************************************************************)
Elems(l) == {l[i] : i \in DOMAIN l}

\* a Put of key k is under way
InPut(k) == client.op = "Put" /\ client.pc # "idle" /\ client.key = k

\* key k has a persisted record that expires at e
HasRecord(k, e) == Has(ttldb, k) /\ GetInfo(ttldb, k).info.ExpiredTime = e

\* a comes no later than b in the eviction order: earlier expiry, or the same
\* expiry and a key that is not greater
Before(a, b) ==
    \/ a.ExpiredTime < b.ExpiredTime
    \/ a.ExpiredTime = b.ExpiredTime /\ BytesCompare(a.Key, b.Key) <= 0

\* a pass that has left its loop leaves no record that expired before its now, and
\* every key it evicted has no record and (unless a Put of it is under way) no value
C1_PassEnd ==
    sweep.pc = "unlock" =>
        /\ \A k \in UserKeys(ttldb) : GetInfo(ttldb, k).info.ExpiredTime >= sweep.now
        /\ \A i \in DOMAIN hist.passCb :
              /\ ~Has(ttldb, hist.passCb[i].Key)
              /\ ~InPut(hist.passCb[i].Key) => CacheGet(hist.passCb[i].Key).err

\* C1: the first pass with now > expiredTime removes the key from the value store
\* and the TTL store, and with the clock and the sweep running every record that
\* can expire is eventually gone, its key without a value (Get fails) unless a
\* later Put of the key replaced it or is under way.
C1_ExpiryEnforced ==
    /\ []C1_PassEnd
    /\ \A k \in CacheKeys : \A e \in 1..(MaxTime - 1) :
          HasRecord(k, e) ~>
              (~HasRecord(k, e) /\ (Has(ttldb, k) \/ InPut(k) \/ CacheGet(k).err))

\* a pass ends having evicted a key that was Put: Get of it fails
C1_Witness ==
    /\ sweep.pc = "unlock"
    /\ Len(hist.passCb) = 1
    /\ client.pc = "idle"
    /\ client.op = "Put"
    /\ CacheGet(hist.passCb[1].Key).err
    /\ ~Has(ttldb, hist.passCb[1].Key)

\* C2: a Put that finds the key's earlier record leaves exactly one record of the
\* key, expiring at the Put's time + ttl, and the new value; a value goes away only
\* by a Put of its key or by the sweep evicting the key's current record, expired.
C2_RefreshReplaces ==
    [][ /\ (/\ client.pc \in {"setttl_lock", "setttl_add"}
            /\ client.op = "Put"
            /\ client'.pc = "idle"
            /\ client'.old \in {"same", "replaced"})
           => LET k == client.key
                  info == [Key |-> k, CreateTime |-> client.createTime, TTL |-> client.ttl,
                           ExpiredTime |-> client.createTime + client.ttl]
              IN  /\ Cardinality({i \in DOMAIN skList' : skList'[i].Key = k}) = 1
                  /\ info \in Elems(skList')
                  /\ GetInfo(ttldb', k) = [err |-> FALSE, info |-> info]
                  /\ Get(data', k) = [err |-> FALSE, value |-> client.value]
        /\ \A k \in CacheKeys :
              (Has(data, k) /\ Get(data', k) # Get(data, k))
                 => \/ InPut(k) /\ client.pc \in {"put_overwrite", "put_insert"}
                                /\ client'.pc = "put_now"
                    \/ /\ sweep.pc = "callback_delete"
                       /\ sweep.info.Key = k
                       /\ sweep.info.ExpiredTime < sweep.now
                       /\ GetInfo(ttldb, k) = [err |-> FALSE, info |-> sweep.info]
      ]_vars

\* Put("k", v1, 1) then Put("k", v2, 2): one record, the second one's, and v2
C2_Witness ==
    /\ client.pc = "idle"
    /\ client.op = "Put"
    /\ client.old = "replaced"
    /\ Len(skList) = 1
    /\ skList[1].Key = client.key
    /\ skList[1].TTL = 2
    /\ Get(data, client.key).value = <<118, 50>>

\* C3: a pass evicts exactly the records that expired before its now and leaves the
\* others in the index and the store; Get returns the stored value, expired or not.
C3_NoEarlyEviction ==
    /\ sweep.pc \in {"callback", "callback_delete", "remove"}
          => sweep.info.ExpiredTime < sweep.now
    /\ sweep.pc = "unlock" =>
          LET live(info) == info.ExpiredTime >= sweep.now
              dead(info) == info.ExpiredTime < sweep.now
          IN  /\ skList = SelectSeq(hist.pass0, live)
              /\ hist.passCb = SelectSeq(hist.pass0, dead)
              /\ \A i \in DOMAIN skList :
                    GetInfo(ttldb, skList[i].Key) = [err |-> FALSE, info |-> skList[i]]
    /\ \A k \in CacheKeys :
          Has(data, k) => CacheGet(k) = [err |-> FALSE, value |-> data[k]]

\* a pass evicted one record and left one that has expired since: its value is
\* still read
C3_Witness ==
    /\ sweep.pc = "unlock"
    /\ Len(hist.passCb) = 1
    /\ Len(skList) = 1
    /\ skList[1].ExpiredTime >= sweep.now
    /\ skList[1].ExpiredTime < now
    /\ ~CacheGet(skList[1].Key).err

\* C4 as claimed: the callbacks of a whole run, pass after pass, come in eviction
\* order
C4_CallbackOrderOverRun ==
    LET log == (IF hist.cbPrev = NoInfo THEN <<>> ELSE <<hist.cbPrev>>) \o hist.passCb
    IN  \A i \in 1..(Len(log) - 1) : Before(log[i], log[i + 1])

\* C4: within one sweep pass the callbacks come in non-decreasing ExpiredTime, and
\* for equal ExpiredTime in ascending key order.
C4_CallbackOrderInPass ==
    \A i \in 1..(Len(hist.passCb) - 1) :
        /\ Before(hist.passCb[i], hist.passCb[i + 1])
        /\ hist.passCb[i].Key # hist.passCb[i + 1].Key

\* a pass called back for two keys that expired in the same second
C4_Witness ==
    /\ Len(hist.passCb) = 2
    /\ hist.passCb[1].ExpiredTime = hist.passCb[2].ExpiredTime

\* C5: during a pass every record the pass found and has not yet called back for
\* (the callback has not returned) is still in the store and the index; so the
\* record is there while its callback runs, and is removed only afterwards.
C5_CallbackBeforeRemoval ==
    /\ sweep.pc = "callback"
          => sweep.info \in Elems(hist.pass0) /\ sweep.info \notin Elems(hist.passCb)
    /\ mutex = "sweep" =>
          \A i \in DOMAIN hist.pass0 :
              hist.pass0[i] \notin Elems(hist.passCb)
                 => /\ GetInfo(ttldb, hist.pass0[i].Key)
                          = [err |-> FALSE, info |-> hist.pass0[i]]
                    /\ hist.pass0[i] \in Elems(skList)

\* the callback for the second of two expired records is running
C5_Witness ==
    /\ sweep.pc = "callback"
    /\ Len(hist.pass0) = 2
    /\ Len(hist.passCb) = 1
    /\ ~GetInfo(ttldb, sweep.info.Key).err

\* the index holds exactly the persisted records, in eviction order
IndexIsStore ==
    /\ Len(skList) = Cardinality(UserKeys(ttldb))
    /\ \A k \in UserKeys(ttldb) : GetInfo(ttldb, k).info \in Elems(skList)
    /\ \A i \in 1..(Len(skList) - 1) : Before(skList[i], skList[i + 1])

\* C10: a TTLChecker opened on the store of a closed one has the index rebuilt,
\* one entry per persisted record with its key and ExpiredTime, before the check
\* loop starts; a callback is made only in a pass whose now is after the ExpiredTime.
C10_Recovery ==
    /\ client.pc \in {"closed", "open_loop"} => sweep.pc = "stopped"
    /\ client.pc = "open_loop" => IndexIsStore
    /\ (client.op = "Open" /\ client.pc = "idle" /\ sweep.pc = "idle") => IndexIsStore
    /\ sweep.pc \in {"callback", "remove"} => sweep.info.ExpiredTime < sweep.now

\* reopened with two records that have not expired, the loop not yet started
C10_Witness ==
    /\ client.pc = "open_loop"
    /\ Len(skList) = 2
    /\ \A i \in DOMAIN skList : skList[i].ExpiredTime >= now

\* C11: while Close has passed its send and until a new Open starts the loop, the
\* loop has returned and no pass holds the lock; the loop returns only from its
\* select between two passes, taking the signal of a Close that waits, so a pass
\* under way is finished first; and a Close that was called returns.
C11_Shutdown ==
    /\ [](client.pc \in {"close_db", "closed", "open_loop"}
             => sweep.pc = "stopped" /\ mutex = "free")
    /\ [][sweep'.pc = "stopped" /\ sweep.pc # "stopped"
             => sweep.pc = "idle" /\ client.pc = "close_send" /\ client'.pc = "close_db"]_vars
    /\ [][client.pc = "close_send" /\ sweep.pc \notin {"idle", "stopped"}
             => client'.pc = "close_send"]_vars
    /\ (client.pc = "close_send") ~> (client.pc = "closed")

\* Close waits in its send while a pass is at its callback
C11_Witness ==
    /\ client.pc = "close_send"
    /\ sweep.pc = "callback"

(***************************************************************************)
(* Claims on the sequence and the reserved keys                            *)
(***************************************************************************)
\* the non-reserved keys of a store with their values
UserData(db) == [k \in UserKeys(db) |-> db[k]]

\* C12: with Put, Delete and NextSequence of two callers interleaved,
\* CurrentSequence() is the number of NextSequence calls that returned (0 before
\* the first), the i-th call to return returned i, so no two calls returned the same
\* value; a step of Put or Delete leaves the sequence as it is, and NextSequence
\* leaves Count() and the stored keys and values as they are.
C12_Sequence ==
    /\ [](/\ CurrentSequence(data) = U64(Len(ret.keys))
          /\ \A i \in DOMAIN ret.keys : ret.keys[i] = U64(i)
          /\ \A i, j \in DOMAIN ret.keys : i # j => ret.keys[i] # ret.keys[j])
    /\ [][IF \E p \in Callers : procs[p].pc = "seq_put" /\ procs'[p].pc = "idle"
          THEN Count(data') = Count(data) /\ UserData(data') = UserData(data)
          ELSE CurrentSequence(data') = CurrentSequence(data)]_vars

\* two NextSequence calls have returned, with a key stored and a Put of one caller
\* between its Has test and its write
C12_Witness ==
    /\ Len(ret.keys) = 2
    /\ CurrentSequence(data) = U64(2)
    /\ Count(data) = U64(1)
    /\ \E p \in Callers : procs[p].pc \in {"put_insert", "put_overwrite"}

(***************************************************************************)
(* Claims on SetTTL and GetInfo                                            *)
(***************************************************************************)
\* the caller's SetTTL takes the mutex and runs in this step
SetTTLRuns == client.pc = "setttl_lock" /\ client.op = "SetTTL" /\ client'.pc # "setttl_lock"

\* C13: a SetTTL(key, t, ttl) that finds the key's record with the same t and ttl
\* returns success and leaves GetKeyCount(), the persisted record, the rest of the
\* store and the index as they are.
C13_SetTTLIdempotent ==
    [][(/\ SetTTLRuns
        /\ ~GetInfo(ttldb, client.key).err
        /\ GetInfo(ttldb, client.key).info.CreateTime = client.createTime
        /\ GetInfo(ttldb, client.key).info.TTL = client.ttl)
       => /\ client'.pc = "idle"
          /\ ~client'.err
          /\ GetKeyCount(ttldb') = GetKeyCount(ttldb)
          /\ GetInfo(ttldb', client.key) = GetInfo(ttldb, client.key)
          /\ ttldb' = ttldb
          /\ skList' = skList]_vars

\* a SetTTL with the arguments of the key's record has returned, a second record
\* beside it
C13_Witness ==
    /\ client.pc = "idle"
    /\ client.op = "SetTTL"
    /\ client.old = "same"
    /\ ~client.err
    /\ Len(skList) = 2
    /\ GetKeyCount(ttldb) = U64(2)

\* C14: a SetTTL with createTime <= 0 or ttl <= 0 returns an error and leaves the
\* index, the TTL store and GetKeyCount() as they are, whether the key has a record
\* or not.
C14_SetTTLValidation ==
    [][(SetTTLRuns /\ (client.createTime <= 0 \/ client.ttl <= 0))
       => /\ client'.pc = "idle"
          /\ client'.err
          /\ skList' = skList
          /\ ttldb' = ttldb
          /\ GetKeyCount(ttldb') = GetKeyCount(ttldb)]_vars

\* a SetTTL with a bad argument has failed on a key that has a record
C14_Witness ==
    /\ client.pc = "idle"
    /\ client.op = "SetTTL"
    /\ client.err
    /\ Has(ttldb, client.key)
    /\ \E i \in DOMAIN skList : skList[i].Key = client.key

\* C15: Put, Get and Delete of a reserved key fail and leave the store, so the
\* stored keys, Count() and CurrentSequence(), as it is; Next and Prev return no
\* reserved key.
C15_ReservedKeys ==
    /\ [](ret.op \in {"Next", "Prev"}
             => \A i \in DOMAIN ret.keys : ~isReservedlKey(ret.keys[i]))
    /\ [][(ret'.op \in {"Put", "Get", "Delete"} /\ ret'.key \in {keyForCount, keyForSequence})
             => /\ ret'.err
                /\ data' = data
                /\ Count(data') = Count(data)
                /\ CurrentSequence(data') = CurrentSequence(data)]_vars

\* a Put of the sequence key has failed on a store that holds both reserved keys
C15_Witness ==
    /\ ret.op = "Put"
    /\ ret.key = keyForSequence
    /\ ret.err
    /\ Count(data) = U64(1)
    /\ CurrentSequence(data) = U64(1)

\* C16: in the state a successful SetTTL(key, c, t) returns in, GetInfo(key) is the
\* record with CreateTime c, TTL t and ExpiredTime c + t; every persisted record
\* reads back with its key and ExpiredTime = CreateTime + TTL; and GetInfo of a key
\* without a record fails.
C16_GetInfoAfterSetTTL ==
    /\ [][(SetTTLRuns \/ (client.pc = "setttl_add" /\ client.op = "SetTTL"))
             /\ client'.pc = "idle" /\ ~client'.err
          => GetInfo(ttldb', client.key)
                = [err |-> FALSE,
                   info |-> [Key |-> client.key, CreateTime |-> client.createTime,
                             TTL |-> client.ttl,
                             ExpiredTime |-> client.createTime + client.ttl]]]_vars
    /\ [](\A k \in TTLKeys :
             IF Has(ttldb, k)
             THEN /\ ~GetInfo(ttldb, k).err
                  /\ GetInfo(ttldb, k).info.Key = k
                  /\ GetInfo(ttldb, k).info.ExpiredTime
                        = GetInfo(ttldb, k).info.CreateTime + GetInfo(ttldb, k).info.TTL
             ELSE GetInfo(ttldb, k).err)

\* a SetTTL has replaced a record by one of TTL 2, the other key without a record
C16_Witness ==
    /\ client.pc = "idle"
    /\ client.op = "SetTTL"
    /\ ~client.err
    /\ client.old = "replaced"
    /\ GetInfo(ttldb, client.key).info.TTL = 2
    /\ GetInfo(ttldb, client.key).info.ExpiredTime = 3
    /\ \E k \in TTLKeys : GetInfo(ttldb, k).err

(***************************************************************************)
(* Claims on the two stores of the TTLCache                                *)
(***************************************************************************)
\* the caller is back from a Put whose SetTTL failed
PutFailed ==
    /\ client.pc = "idle"
    /\ client.op = "Put"
    /\ client.err
    /\ ~isReservedlKey(client.key)

\* C17: once a Put(k, v, ttl) whose SetTTL failed has returned, and as long as
\* the caller makes no other call, the value stays in the value store, whatever
\* sweep passes run.
C17_PartialPut == PutFailed => Has(data, client.key)

\* C18: once a Put(k, v, ttl > 0) has returned success and no sweep pass is under
\* way, k has a value if and only if it has a TTL record (so never a record
\* without a value), whatever pass ran while the Put did.
C18_PutSweepOneToOne ==
    (client.pc = "idle" /\ client.op = "Put" /\ ~client.err /\ sweep.pc = "idle")
        => (Has(data, client.key) <=> Has(ttldb, client.key))

\* C19: at every point, during and after TTLCache.Close too, a key whose record
\* the pass under way has called back for and removed has no value in the value
\* store (unless a Put of the key is under way).
C19_CloseOrder ==
    \A i \in DOMAIN hist.passCb :
        (~Has(ttldb, hist.passCb[i].Key) /\ ~InPut(hist.passCb[i].Key))
            => ~Has(data, hist.passCb[i].Key)

\* C20: whenever the lock of the TTLChecker is free, the keys of the index are the
\* keys of the TTL store, each key has at most one index entry, the entry's
\* ExpiredTime is that of the persisted record, and GetKeyCount() is the number of
\* index entries.
C20_IndexStoreLockstep ==
    mutex = "free" =>
        /\ {skList[i].Key : i \in DOMAIN skList} = UserKeys(ttldb)
        /\ \A i, j \in DOMAIN skList : skList[i].Key = skList[j].Key => i = j
        /\ \A i \in DOMAIN skList :
              GetInfo(ttldb, skList[i].Key).info.ExpiredTime = skList[i].ExpiredTime
        /\ GetKeyCount(ttldb) = U64(Len(skList))

\* C21: while a SetTTL that found a record of the key with another createTime or
\* ttl is between its removal of the old entry and its addIndex, the TTL store
\* holds a record of the key, so a GetInfo(key) made then (it takes no lock)
\* succeeds, and so does one made after a stop of the process at that point.
C21_RefreshKeepsRecord ==
    (client.pc = "setttl_add" /\ client.old = "replaced")
        => (Has(ttldb, client.key) /\ ~GetInfo(ttldb, client.key).err)

=============================================================================
